---- MODULE Spec2Model ----
(***************************************************************************)
(* Model of package logger (BlogService): the Logger value, its With*      *)
(* derivations, caller capture, JSON record construction and emission.     *)
(* Go maps are reference values: a Logger's fields member is an address    *)
(* into the map store `maps` (0 is the nil map), so that the shallow       *)
(* struct copy made by clone() is modelled as what it is.                  *)
(***************************************************************************)
EXTENDS Integers, Sequences, FiniteSets, TLC

VARIABLES loggers,   \* the Logger structs allocated so far (index = pointer)
          hist,      \* per Logger: the call that returned it (history)
          maps,      \* the store of Fields maps (index = address)
          sink,      \* what the io.Writer of NewLogger has received, in order
          calls,     \* the calls of Output made so far (history)
          base,      \* the Logger handed to the goroutines (0: none started)
          gs,        \* per goroutine: position and locals
          crashed    \* the process was ended: the runtime aborted it, or it
                     \* exited or panicked

vars == <<loggers, hist, maps, sink, calls, base, gs, crashed>>

----------------------------------------------------------------------------
(* Bounds *)

MaxLoggers == 4        \* Logger values allocated in Spec
MaxEmitLoggers == 2    \* Logger values allocated in SpecEmit
MaxConcLoggers == 2    \* Logger values allocated before the goroutines start
MaxCalls == 1          \* calls of Output made in SpecEmit
MaxSkip == 2           \* largest skip handed to WithCaller
MaxStackDepth == 1     \* frames of the application above the logger call
NumGoroutines == 2
MaxStackLoggers == 3   \* Logger values allocated in SpecStack
MaxDeepStack == 27     \* deepest application stack in SpecStack
MaxChainLoggers == 3   \* Logger values allocated in SpecChain
MaxLevelLoggers == 3   \* Logger values allocated in SpecLevel

----------------------------------------------------------------------------
(* Go values held in interface{} *)

GoString(str) == [kind |-> "string", s |-> str, n |-> 0, a |-> <<>>]
GoInt(i) == [kind |-> "int", s |-> "", n |-> i, a |-> <<>>]
GoChan == [kind |-> "chan", s |-> "", n |-> 0, a |-> <<>>]
NilSlice == [kind |-> "nilslice", s |-> "", n |-> 0, a |-> <<>>]
GoSlice(elems) == [kind |-> "slice", s |-> "", n |-> 0, a |-> elems]

EmptyFields == [k \in {} |-> GoChan]

Fields1(k, v) == [x \in {k} |-> v]
Fields2(k1, v1, k2, v2) == [x \in {k1, k2} |-> IF x = k1 THEN v1 ELSE v2]

\* the Fields handed to WithFields in Spec
FieldsArgs ==
    { Fields1("service", GoString("auth")),
      Fields2("service", GoString("pay"), "message", GoString("spoof")),
      Fields1("uid", GoInt(7)) }

\* the Fields handed to WithFields in SpecEmit: one holds a channel, which
\* encoding/json cannot encode
EmitFieldsArgs ==
    { Fields1("service", GoString("auth")),
      Fields2("service", GoString("pay"), "message", GoString("spoof")),
      Fields1("conn", GoChan) }

----------------------------------------------------------------------------
(* Level *)

LevelDebug == 0
LevelInfo == 1
LevelWarn == 2
LevelError == 3
LevelFatal == 4
LevelPanic == 5

Severities == {LevelDebug, LevelInfo, LevelWarn, LevelError, LevelFatal, LevelPanic}

\* a Level that is none of the six: Level is an int8
LevelOther == 6

\* the Level values handed to WithLevel
LevelArgs == {LevelError, LevelOther}

\* a negative Level
LevelBelow == -1

\* the Level values handed to WithLevel in SpecLevel: the six and two others
LevelValues == Severities \cup {LevelOther, LevelBelow}

LevelString(l) ==
    CASE l = LevelDebug -> "debug"
      [] l = LevelInfo -> "info"
      [] l = LevelWarn -> "warn"
      [] l = LevelError -> "error"
      [] l = LevelFatal -> "fatal"
      [] l = LevelPanic -> "panic"
      [] OTHER -> ""

----------------------------------------------------------------------------
(* fmt *)

FormatValue(v) ==
    CASE v.kind = "string" -> v.s
      [] v.kind = "int" -> ToString(v.n)
      [] OTHER -> "?"

IsVerb(tok) == tok \in {"%d", "%s", "%v"}

\* fmt.Sprintf over a format given as its literal pieces and verbs
RECURSIVE Sprintf(_, _)
Sprintf(format, args) ==
    IF format = <<>> THEN
        IF args = <<>> THEN "" ELSE "%!(EXTRA)"
    ELSE IF IsVerb(Head(format)) THEN
        IF args = <<>> THEN "%!(MISSING)" \o Sprintf(Tail(format), args)
        ELSE FormatValue(Head(args)) \o Sprintf(Tail(format), Tail(args))
    ELSE Head(format) \o Sprintf(Tail(format), args)

\* fmt.Sprint: a space between operands when neither is a string
RECURSIVE Sprint(_)
Sprint(v) ==
    IF v = <<>> THEN ""
    ELSE IF Len(v) = 1 THEN FormatValue(v[1])
    ELSE FormatValue(v[1])
         \o (IF v[1].kind # "string" /\ v[2].kind # "string" THEN " " ELSE "")
         \o Sprint(Tail(v))

----------------------------------------------------------------------------
(* The Logger struct *)

Logger(nl, ctx, level, fields, callers) ==
    [newLogger |-> nl, ctx |-> ctx, level |-> level, fields |-> fields,
     callers |-> callers]

\* NewLogger: only newLogger is set, every other member is the zero value
NewLogger == Logger(1, "nil", 0, 0, NilSlice)

clone(l) == l

\* the contents of the map a fields member refers to (nil reads as empty)
MapAt(m, addr) == IF addr = 0 THEN EmptyFields ELSE m[addr]

FieldSet(i) == MapAt(maps, loggers[i].fields)

\* the call that returned a Logger: the method, its receiver, the Fields it
\* was handed (WithFields) and the ok that runtime.Caller returned (WithCaller)
Origin(op, parent, f, ok) == [op |-> op, parent |-> parent, f |-> f, ok |-> ok]

----------------------------------------------------------------------------
(* runtime: the call stack *)

\* the frames of the application, innermost first: UserFrame(1) is the
\* routine that called the Logger method
UserFrame(i) ==
    [file |-> "main.go", line |-> 10 * i, function |-> "main.f" \o ToString(i)]

WithCallerFrame ==
    [file |-> "logger.go", line |-> 95, function |-> "logger.(*Logger).WithCaller"]

WithCallersFramesFrame ==
    [file |-> "logger.go", line |-> 115,
     function |-> "logger.(*Logger).WithCallersFrames"]

ZeroFrame == [file |-> "", line |-> 0, function |-> ""]

\* the stack inside a Logger method whose caller has depth application
\* frames: the method's own frame, then the application's, outermost last
Stack(self, depth) == <<self>> \o [i \in 1..depth |-> UserFrame(i)]

\* RuntimeCaller with skip counted from the caller of the method
RuntimeCallerAbove(stack, skip) ==
    IF skip + 2 <= Len(stack)
    THEN [frame |-> stack[skip + 2], ok |-> TRUE]
    ELSE [frame |-> ZeroFrame, ok |-> FALSE]

\* RuntimeCaller reporting ok for a skip beyond the stack
RuntimeCallerZeroOk(stack, skip) ==
    [frame |-> IF skip + 1 <= Len(stack) THEN stack[skip + 1] ELSE ZeroFrame,
     ok |-> TRUE]

\* runtime.Caller(skip) called in the method whose stack is given: skip 0 is
\* the frame of the caller of runtime.Caller, that is the method itself
RuntimeCaller(stack, skip) ==
    IF skip + 1 <= Len(stack)
    THEN [frame |-> stack[skip + 1], ok |-> TRUE]
    ELSE [frame |-> ZeroFrame, ok |-> FALSE]

Min(a, b) == IF a <= b THEN a ELSE b

\* RuntimeCallers not bounded by the size of pcs
RuntimeCallersUncapped(stack, skip, size) ==
    IF skip = 0 THEN <<>> ELSE SubSeq(stack, skip, Len(stack))

\* runtime.Callers(skip, pcs) called in the method whose stack is given:
\* skip 0 is Callers itself, skip 1 its caller; at most size entries
RuntimeCallers(stack, skip, size) ==
    IF skip = 0 THEN <<>>
    ELSE SubSeq(stack, skip, Min(Len(stack), skip + size - 1))

\* runtime.Frames.Next, for the i-th call on the frames of pcs: more tells
\* whether a further frame follows the returned one
FramesNext(pcs, i) ==
    [frame |-> IF i <= Len(pcs) THEN pcs[i] ELSE ZeroFrame, more |-> i < Len(pcs)]

\* fmt.Sprintf("%s: %d %s", file, line, function)
RenderFrame(fr) ==
    Sprintf(<<"%s", ": ", "%d", " ", "%s">>,
            <<GoString(fr.file), GoInt(fr.line), GoString(fr.function)>>)

maxCallerDepth == 25
minCallerDepth == 1

\* the loop of WithCallersFrames: for frame, more := Next(); more; ... Next()
RECURSIVE FramesLoop(_, _, _)
FramesLoop(pcs, i, callers) ==
    LET nx == FramesNext(pcs, i)
    IN IF nx.more
       THEN FramesLoop(pcs, i + 1, Append(callers, RenderFrame(nx.frame)))
       ELSE callers

----------------------------------------------------------------------------
(* Derivations *)

\* MakeFields handing out one map for every call
MakeFieldsShared(m) ==
    [addr |-> 1, maps |-> IF m = <<>> THEN Append(m, EmptyFields) ELSE m]

\* MakeFields handing out the map allocated last, once there is one
MakeFieldsReuse(m) ==
    IF m = <<>> THEN [addr |-> 1, maps |-> Append(m, EmptyFields)]
    ELSE [addr |-> Len(m), maps |-> m]

\* make(Fields): a fresh empty map at a fresh address
MakeFields(m) == [addr |-> Len(m) + 1, maps |-> Append(m, EmptyFields)]

\* MapStore keeping the value of a key that is present
MapStoreKeep(old, k, v) ==
    [x \in DOMAIN old \cup {k} |-> IF x \in DOMAIN old THEN old[x] ELSE v]

\* m[k] = v
MapStore(old, k, v) ==
    [x \in DOMAIN old \cup {k} |-> IF x = k THEN v ELSE old[x]]

\* RangeStore storing nothing
RangeStoreNone(old, f, todo) == old

\* for k, v := range f { m[k] = v }
RECURSIVE RangeStore(_, _, _)
RangeStore(old, f, todo) ==
    IF todo = {} THEN old
    ELSE LET k == CHOOSE x \in todo : TRUE
         IN RangeStore(MapStore(old, k, f[k]), f, todo \ {k})

\* Derive writing the new struct through the receiver's pointer as well
DeriveInPlace(ll, op, parent, f, ok) ==
    /\ loggers' = Append([loggers EXCEPT ![parent] = ll], ll)
    /\ hist' = Append(hist, Origin(op, parent, f, ok))

Derive(ll, op, parent, f, ok) ==
    /\ loggers' = Append(loggers, ll)
    /\ hist' = Append(hist, Origin(op, parent, f, ok))

WithLevel(i, lvl) ==
    /\ i \in 1..Len(loggers)
    /\ LET ll == clone(loggers[i])
       IN Derive([ll EXCEPT !.level = lvl], "WithLevel", i, EmptyFields, TRUE)
    /\ UNCHANGED <<maps, sink, calls, base, gs, crashed>>

WithFields(i, f) ==
    /\ i \in 1..Len(loggers)
    /\ LET ll == clone(loggers[i])
           mk == IF ll.fields = 0 THEN MakeFields(maps)
                 ELSE [addr |-> ll.fields, maps |-> maps]
       IN /\ maps' = [mk.maps EXCEPT
                         ![mk.addr] = RangeStore(@, f, DOMAIN f)]
          /\ Derive([ll EXCEPT !.fields = mk.addr], "WithFields", i, f, TRUE)
    /\ UNCHANGED <<sink, calls, base, gs, crashed>>

WithContext(i, ctx) ==
    /\ i \in 1..Len(loggers)
    /\ LET ll == clone(loggers[i])
       IN Derive([ll EXCEPT !.ctx = ctx], "WithContext", i, EmptyFields, TRUE)
    /\ UNCHANGED <<maps, sink, calls, base, gs, crashed>>

WithCaller(i, skip, depth) ==
    /\ i \in 1..Len(loggers)
    /\ LET ll == clone(loggers[i])
           c == RuntimeCaller(Stack(WithCallerFrame, depth), skip)
       IN Derive(IF c.ok
                 THEN [ll EXCEPT !.callers = GoSlice(<<RenderFrame(c.frame)>>)]
                 ELSE ll,
                 "WithCaller", i, EmptyFields, c.ok)
    /\ UNCHANGED <<maps, sink, calls, base, gs, crashed>>

WithCallersFrames(i, depth) ==
    /\ i \in 1..Len(loggers)
    /\ LET pcs == RuntimeCallers(Stack(WithCallersFramesFrame, depth),
                                 minCallerDepth, maxCallerDepth)
           callers == FramesLoop(pcs, 1, <<>>)
           ll == clone(loggers[i])
       IN Derive([ll EXCEPT !.callers = GoSlice(callers)],
                 "WithCallersFrames", i, EmptyFields, TRUE)
    /\ UNCHANGED <<maps, sink, calls, base, gs, crashed>>

----------------------------------------------------------------------------
(* Record construction and emission *)

Reserved == {"level", "time", "message", "callers"}

\* StoreIfAbsent without the test for the key
StoreAlways(data, k, v) == [x \in DOMAIN data \cup {k} |-> IF x = k THEN v ELSE data[x]]

\* if _, ok := data[k]; !ok { data[k] = v }
StoreIfAbsent(data, k, v) ==
    IF k \in DOMAIN data THEN data ELSE MapStore(data, k, v)

RECURSIVE RangeFields(_, _, _)
RangeFields(data, fields, todo) ==
    IF todo = {} THEN data
    ELSE LET k == CHOOSE x \in todo : TRUE
         IN RangeFields(StoreIfAbsent(data, k, fields[k]), fields, todo \ {k})

\* JSONFormat of Logger l, with m the map store and now the clock's reading
JSONFormat(l, m, message, now) ==
    LET d1 == MapStore(EmptyFields, "level", GoString(LevelString(l.level)))
        d2 == MapStore(d1, "time", GoInt(now))
        d3 == MapStore(d2, "message", GoString(message))
        d4 == MapStore(d3, "callers", l.callers)
        fields == MapAt(m, l.fields)
    IN IF Cardinality(DOMAIN fields) > 0
       THEN RangeFields(d4, fields, DOMAIN fields)
       ELSE d4

RECURSIVE EncodeStrings(_)
EncodeStrings(a) ==
    IF a = <<>> THEN ""
    ELSE "\"" \o Head(a) \o "\""
         \o (IF Len(a) > 1 THEN "," ELSE "") \o EncodeStrings(Tail(a))

\* encoding/json of one value of the record
EncodeValue(v) ==
    CASE v.kind = "string" -> "\"" \o v.s \o "\""
      [] v.kind = "int" -> ToString(v.n)
      [] v.kind = "nilslice" -> "null"
      [] v.kind = "slice" -> "[" \o EncodeStrings(v.a) \o "]"

Representable(v) == v.kind # "chan"

NoObject == [k \in {} |-> ""]

\* json.Marshal of the record: the object as a mapping from key to the JSON
\* text of its value, or an error and a nil body
Marshal(data) ==
    IF \A k \in DOMAIN data : Representable(data[k])
    THEN [err |-> FALSE, obj |-> [k \in DOMAIN data |-> EncodeValue(data[k])]]
    ELSE [err |-> TRUE, obj |-> NoObject]

\* content := string(body): the JSON text, or "" for the nil body
Content(body) == [json |-> ~body.err, obj |-> body.obj]

NoContent == [json |-> FALSE, obj |-> NoObject]

\* HasCase with a default branch that prints
HasCaseDefault(level) == TRUE

\* HasCase with the case of LevelError missing
HasCaseNoError(level) ==
    level \in {LevelDebug, LevelInfo, LevelWarn, LevelFatal, LevelPanic}

\* the switch of Output: the levels that have a case
HasCase(level) ==
    level \in {LevelDebug, LevelInfo, LevelWarn, LevelError, LevelFatal,
               LevelPanic}

\* CaseCall with log.Logger's Fatal and Panic in the cases of those levels
CaseCallBySeverity(level) ==
    CASE level = LevelFatal -> "Fatal"
      [] level = LevelPanic -> "Panic"
      [] OTHER -> "Print"

\* the method of log.Logger that the case of a level calls: l.newLogger.Print
\* in each of the six
CaseCall(level) == "Print"

\* package log: Print writes and returns; Fatal writes and calls os.Exit(1);
\* Panic writes and panics
EndsProcess(method) == method \in {"Fatal", "Panic"}

\* the process after Output at a level: ended when the call made does so
AfterOutput(ended, level) ==
    ended \/ (HasCase(level) /\ EndsProcess(CaseCall(level)))

\* log.Logger.Print(content): one Write of prefix, content and a newline
\* (by and op record the call that made the write)
LogPrint(w, by, op, content) ==
    Append(w, [by |-> by, op |-> op, content |-> content, nl |-> "\n"])

\* a call of Output: on Logger by (in SpecConc: by goroutine by), directly
\* (op "Output") or inside the leveled call op, run at level lvl
Call(op, by, lvl, message, now) ==
    [op |-> op, by |-> by, level |-> lvl, message |-> message, now |-> now]

\* Output of Logger l: the sink afterwards
OutputTo(w, l, m, by, op, message, now) ==
    LET content == Content(Marshal(JSONFormat(l, m, message, now)))
    IN IF HasCase(l.level) THEN LogPrint(w, by, op, content) ELSE w

Output(i, message, now) ==
    /\ i \in 1..Len(loggers)
    /\ sink' = OutputTo(sink, loggers[i], maps, i, "Output", message, now)
    /\ calls' = Append(calls, Call("Output", i, loggers[i].level, message, now))
    /\ crashed' = AfterOutput(crashed, loggers[i].level)
    /\ UNCHANGED <<loggers, hist, maps, base, gs>>

\* Leveled setting the level on the receiver instead of on a clone
LeveledInPlace(i, op, lvl, message, now) ==
    /\ i \in 1..Len(loggers)
    /\ loggers' = [loggers EXCEPT ![i].level = lvl]
    /\ sink' = OutputTo(sink, loggers'[i], maps, i, op, message, now)
    /\ calls' = Append(calls, Call(op, i, lvl, message, now))
    /\ crashed' = AfterOutput(crashed, lvl)
    /\ UNCHANGED <<hist, maps, base, gs>>

\* Leveled calling Output on the receiver, without WithLevel
LeveledKeepsLevel(i, op, lvl, message, now) ==
    /\ i \in 1..Len(loggers)
    /\ sink' = OutputTo(sink, loggers[i], maps, i, op, message, now)
    /\ calls' = Append(calls, Call(op, i, lvl, message, now))
    /\ crashed' = AfterOutput(crashed, loggers[i].level)
    /\ UNCHANGED <<loggers, hist, maps, base, gs>>

\* l.WithLevel(lvl).Output(message): the derived Logger is dropped on return
Leveled(i, op, lvl, message, now) ==
    /\ i \in 1..Len(loggers)
    /\ LET ll == clone(loggers[i])
       IN sink' = OutputTo(sink, [ll EXCEPT !.level = lvl], maps, i, op,
                           message, now)
    /\ calls' = Append(calls, Call(op, i, lvl, message, now))
    /\ crashed' = AfterOutput(crashed, lvl)
    /\ UNCHANGED <<loggers, hist, maps, base, gs>>

Debug(i, v, now) == Leveled(i, "Debug", LevelDebug, Sprint(v), now)
Debugf(i, format, v, now) == Leveled(i, "Debugf", LevelDebug, Sprintf(format, v), now)
Info(i, v, now) == Leveled(i, "Info", LevelInfo, Sprint(v), now)
Infof(i, format, v, now) == Leveled(i, "Infof", LevelInfo, Sprintf(format, v), now)
Fatal(i, v, now) == Leveled(i, "Fatal", LevelFatal, Sprint(v), now)
Fatalf(i, format, v, now) == Leveled(i, "Fatalf", LevelFatal, Sprintf(format, v), now)
Warn(i, v, now) == Leveled(i, "Warn", LevelWarn, Sprint(v), now)
Warnf(i, format, v, now) == Leveled(i, "Warnf", LevelWarn, Sprintf(format, v), now)
Error(i, v, now) == Leveled(i, "Error", LevelError, Sprint(v), now)
Errorf(i, format, v, now) == Leveled(i, "Errorf", LevelError, Sprintf(format, v), now)
Panic(i, v, now) == Leveled(i, "Panic", LevelPanic, Sprint(v), now)
Panicf(i, format, v, now) == Leveled(i, "Panicf", LevelPanic, Sprintf(format, v), now)

----------------------------------------------------------------------------
(* Inputs *)

Contexts == {"ctx"}
Skips == 0..MaxSkip
Depths == 1..MaxStackDepth
Times == {1001}
Messages == {"db timeout"}
PrintArgs == {<<GoString("db timeout")>>}
Formats == {<<"user ", "%d", " logged in">>}
FormatArgs == {<<GoInt(42)>>}

----------------------------------------------------------------------------
(* Spec: the derivations, from the root *)

Idle == [pc |-> "idle", f |-> EmptyFields, ll |-> NewLogger, todo |-> {},
         content |-> NoContent]

Init ==
    /\ loggers = <<NewLogger>>
    /\ hist = <<Origin("NewLogger", 0, EmptyFields, TRUE)>>
    /\ maps = <<>>
    /\ sink = <<>>
    /\ calls = <<>>
    /\ base = 0
    /\ gs = [g \in 1..NumGoroutines |-> Idle]
    /\ crashed = FALSE

\* the Loggers a derivation may be called on while fewer than max exist
Receivers(max) == IF Len(loggers) < max THEN 1..Len(loggers) ELSE {}

Next ==
    \/ \E i \in Receivers(MaxLoggers), lvl \in LevelArgs : WithLevel(i, lvl)
    \/ \E i \in Receivers(MaxLoggers), f \in FieldsArgs : WithFields(i, f)
    \/ \E i \in Receivers(MaxLoggers), ctx \in Contexts : WithContext(i, ctx)
    \/ \E i \in Receivers(MaxLoggers), skip \in Skips, depth \in Depths :
          WithCaller(i, skip, depth)
    \/ \E i \in Receivers(MaxLoggers), depth \in Depths :
          WithCallersFrames(i, depth)

Spec == Init /\ [][Next]_vars

----------------------------------------------------------------------------
(* SpecEmit: derivations and emission on the sink *)

\* the Loggers an emission may be called on while calls are left
Emitters == IF Len(calls) < MaxCalls THEN 1..Len(loggers) ELSE {}

NextEmit ==
    \/ \E i \in Receivers(MaxEmitLoggers), lvl \in LevelArgs : WithLevel(i, lvl)
    \/ \E i \in Receivers(MaxEmitLoggers), f \in EmitFieldsArgs :
          WithFields(i, f)
    \/ \E i \in Receivers(MaxEmitLoggers), ctx \in Contexts : WithContext(i, ctx)
    \/ \E i \in Receivers(MaxEmitLoggers), skip \in Skips, depth \in Depths :
          WithCaller(i, skip, depth)
    \/ \E i \in Receivers(MaxEmitLoggers), depth \in Depths :
          WithCallersFrames(i, depth)
    \/ \E i \in Emitters, m \in Messages, now \in Times : Output(i, m, now)
    \/ \E i \in Emitters, v \in PrintArgs, now \in Times : Debug(i, v, now)
    \/ \E i \in Emitters, v \in PrintArgs, now \in Times : Info(i, v, now)
    \/ \E i \in Emitters, v \in PrintArgs, now \in Times : Warn(i, v, now)
    \/ \E i \in Emitters, v \in PrintArgs, now \in Times : Error(i, v, now)
    \/ \E i \in Emitters, v \in PrintArgs, now \in Times : Fatal(i, v, now)
    \/ \E i \in Emitters, v \in PrintArgs, now \in Times : Panic(i, v, now)
    \/ \E i \in Emitters, fm \in Formats, v \in FormatArgs, now \in Times :
          Debugf(i, fm, v, now)
    \/ \E i \in Emitters, fm \in Formats, v \in FormatArgs, now \in Times :
          Infof(i, fm, v, now)
    \/ \E i \in Emitters, fm \in Formats, v \in FormatArgs, now \in Times :
          Warnf(i, fm, v, now)
    \/ \E i \in Emitters, fm \in Formats, v \in FormatArgs, now \in Times :
          Errorf(i, fm, v, now)
    \/ \E i \in Emitters, fm \in Formats, v \in FormatArgs, now \in Times :
          Fatalf(i, fm, v, now)
    \/ \E i \in Emitters, fm \in Formats, v \in FormatArgs, now \in Times :
          Panicf(i, fm, v, now)

SpecEmit == Init /\ [][NextEmit]_vars

----------------------------------------------------------------------------
(* SpecConc: goroutines that derive from one shared Logger and emit.       *)
(* A goroutine runs l.WithFields(f).Output(message) statement by           *)
(* statement; the map store is shared memory.                              *)

Goroutines == 1..NumGoroutines

\* the fields of the shared Logger, and those the goroutines add
BaseFieldsArgs == {Fields1("service", GoString("auth"))}
ConcFieldsArgs ==
    { Fields2("service", GoString("pay"), "message", GoString("spoof")),
      Fields1("uid", GoInt(7)),
      Fields1("conn", GoChan) }

FieldKeys == UNION {DOMAIN f : f \in ConcFieldsArgs}

\* the main goroutine prepares Loggers before it starts the others
Prepare(i, f) ==
    /\ base = 0
    /\ WithFields(i, f)

\* go func() { l.WithFields(f).Output(...) }() for every goroutine, on the
\* same Logger b
Go(b, fs) ==
    /\ base = 0
    /\ b \in 1..Len(loggers)
    /\ base' = b
    /\ gs' = [g \in Goroutines |-> [Idle EXCEPT !.pc = "clone", !.f = fs[g]]]
    /\ UNCHANGED <<loggers, hist, maps, sink, calls, crashed>>

\* ll := l.clone(); if ll.fields == nil { ll.fields = make(Fields) }
\* (the Logger struct is never written after its construction, so the copy
\* and the test of the copy are one step)
GClone(g) ==
    /\ ~crashed
    /\ gs[g].pc = "clone"
    /\ LET ll == clone(loggers[base])
           mk == IF ll.fields = 0 THEN MakeFields(maps)
                 ELSE [addr |-> ll.fields, maps |-> maps]
       IN /\ maps' = mk.maps
          /\ gs' = [gs EXCEPT ![g].ll = [ll EXCEPT !.fields = mk.addr],
                              ![g].pc = "range", ![g].todo = DOMAIN gs[g].f]
    /\ UNCHANGED <<loggers, hist, sink, calls, base, crashed>>

\* one iteration of for k, v := range f { ll.fields[k] = v }
GStore(g, k) ==
    /\ ~crashed
    /\ gs[g].pc = "range"
    /\ k \in gs[g].todo
    /\ maps' = [maps EXCEPT ![gs[g].ll.fields] = MapStore(@, k, gs[g].f[k])]
    /\ gs' = [gs EXCEPT ![g].todo = @ \ {k}]
    /\ UNCHANGED <<loggers, hist, sink, calls, base, crashed>>

\* the loop is over and WithFields returns ll; in Output,
\* body, _ := json.Marshal(l.JSONFormat(message)); content := string(body)
GFormat(g, message, now) ==
    /\ ~crashed
    /\ gs[g].pc = "range"
    /\ gs[g].todo = {}
    /\ gs' = [gs EXCEPT
                 ![g].content =
                     Content(Marshal(JSONFormat(gs[g].ll, maps, message, now))),
                 ![g].pc = "switch"]
    /\ calls' = Append(calls, Call("Output", g, gs[g].ll.level, message, now))
    /\ UNCHANGED <<loggers, hist, maps, sink, base, crashed>>

\* switch l.level { case ...: l.newLogger.Print(content) }: log.Logger
\* holds its mutex over the write
GPrint(g) ==
    /\ ~crashed
    /\ gs[g].pc = "switch"
    /\ sink' = IF HasCase(gs[g].ll.level)
               THEN LogPrint(sink, g, "Output", gs[g].content) ELSE sink
    /\ gs' = [gs EXCEPT ![g].pc = "done"]
    /\ crashed' = AfterOutput(crashed, gs[g].ll.level)
    /\ UNCHANGED <<loggers, hist, maps, calls, base>>

\* the map a goroutine's next statement writes, or reads (0: none)
Writes(g) ==
    IF gs[g].pc = "range" /\ gs[g].todo # {} THEN gs[g].ll.fields ELSE 0

Reads(g) ==
    IF gs[g].pc = "range" /\ gs[g].todo = {} THEN gs[g].ll.fields ELSE 0

\* two goroutines are about to access the same map without synchronisation,
\* one of them writing
DataRace ==
    \E g1, g2 \in Goroutines :
        /\ g1 # g2
        /\ Writes(g1) # 0
        /\ Writes(g1) \in {Writes(g2), Reads(g2)}

\* a racing map access is undefined: the accesses may take effect in either
\* order (the steps above), or the runtime detects it and aborts the process
\* (fatal error: concurrent map writes / concurrent map read and map write)
GAbort ==
    /\ ~crashed
    /\ DataRace
    /\ crashed' = TRUE
    /\ UNCHANGED <<loggers, hist, maps, sink, calls, base, gs>>

NextConc ==
    \/ \E i \in Receivers(MaxConcLoggers), f \in BaseFieldsArgs : Prepare(i, f)
    \/ \E b \in 1..Len(loggers), fs \in [Goroutines -> ConcFieldsArgs] : Go(b, fs)
    \/ \E g \in Goroutines : GClone(g)
    \/ \E g \in Goroutines, k \in FieldKeys : GStore(g, k)
    \/ \E g \in Goroutines, m \in Messages, now \in Times : GFormat(g, m, now)
    \/ \E g \in Goroutines : GPrint(g)
    \/ GAbort

SpecConc == Init /\ [][NextConc]_vars

----------------------------------------------------------------------------
(* SpecStack: caller capture from call stacks about as deep as, and deeper  *)
(* than, the buffer WithCallersFrames hands to runtime.Callers              *)

DeepDepths ==
    {1, 2, maxCallerDepth - 1} \cup (maxCallerDepth .. MaxDeepStack)

DeepSkips == {0, 1, 2, maxCallerDepth, MaxDeepStack + 1}

NextStack ==
    \/ \E i \in Receivers(MaxStackLoggers), depth \in DeepDepths :
          WithCallersFrames(i, depth)
    \/ \E i \in Receivers(MaxStackLoggers), skip \in DeepSkips,
             depth \in DeepDepths :
          WithCaller(i, skip, depth)

SpecStack == Init /\ [][NextStack]_vars

----------------------------------------------------------------------------
(* SpecChain: the chained use base.WithFields(f).WithCaller(skip).Error(v)  *)

NextChain ==
    \/ \E i \in Receivers(MaxChainLoggers), f \in EmitFieldsArgs :
          WithFields(i, f)
    \/ \E i \in Receivers(MaxChainLoggers), skip \in Skips, depth \in Depths :
          WithCaller(i, skip, depth)
    \/ \E i \in Emitters, v \in PrintArgs, now \in Times : Error(i, v, now)

SpecChain == Init /\ [][NextChain]_vars

----------------------------------------------------------------------------
(* SpecLevel: Output on Loggers set to any Level, defined or not            *)

NextLevel ==
    \/ \E i \in Receivers(MaxLevelLoggers), lvl \in LevelValues :
          WithLevel(i, lvl)
    \/ \E i \in Emitters, m \in Messages, now \in Times : Output(i, m, now)

SpecLevel == Init /\ [][NextLevel]_vars

----------------------------------------------------------------------------
(* Properties *)

Last(q) == q[Len(q)]

\* Logger a lies on the derivation chain that leads to Logger i
RECURSIVE IsAncestor(_, _)
IsAncestor(a, i) ==
    /\ hist[i].parent # 0
    /\ \/ hist[i].parent = a
       \/ IsAncestor(a, hist[i].parent)

\* the step is a derivation by op: its receiver is Receiver (read off the
\* history, to tell the steps a property speaks of)
DerivedBy(op) == Len(hist') = Len(hist) + 1 /\ Last(hist').op = op

Receiver == Last(hist').parent

\* the step is a call of Output: TheCall tells which
Emitted == Len(calls') = Len(calls) + 1

TheCall == Last(calls')

\* C1: WithFields leaves the receiver's field set as it was before the call,
\* also for a receiver that already carries fields.
C1_ReceiverFieldsUnchanged ==
    [][DerivedBy("WithFields") =>
          \A i \in {Receiver}, f \in FieldsArgs \cup EmitFieldsArgs :
              WithFields(i, f) => FieldSet(i)' = FieldSet(i)]_vars

\* C2: a WithFields on one derivation chain never changes the field set of a
\* Logger on another chain from a shared ancestor (a Logger that is neither
\* the receiver nor one of the receiver's ancestors).
C2_ChainsIndependent ==
    [][DerivedBy("WithFields") =>
          \A f \in FieldsArgs \cup EmitFieldsArgs, j \in 1..Len(loggers) :
              (WithFields(Receiver, f) /\ j # Receiver
                   /\ ~IsAncestor(j, Receiver))
                  => FieldSet(j)' = FieldSet(j)]_vars

\* the frames a capture sees from depth 1 outward, for an application stack
\* of the given depth: the capturing method's own frame, then its callers
FramesFromDepth1(depth) == Stack(WithCallersFramesFrame, depth)

\* C9: WithCallersFrames stores min(n, 25) entries for a stack of n frames
\* from depth 1 outward: every frame, innermost first, the outermost included.
C9_AllFramesCaptured ==
    [][DerivedBy("WithCallersFrames") =>
          \A depth \in Depths :
              WithCallersFrames(Receiver, depth)
                  => LET st == FramesFromDepth1(depth)
                         n == Len(st)
                     IN Last(loggers').callers
                            = GoSlice([j \in 1..Min(n, maxCallerDepth) |->
                                           RenderFrame(st[j])])]_vars

\* C10 as stated: WithCaller(skip) records the frame skip levels above the
\* caller of WithCaller (skip 0: the routine that invoked WithCaller).
C10_SkipFromCaller ==
    [][DerivedBy("WithCaller") =>
          \A skip \in Skips, depth \in Depths :
              (WithCaller(Receiver, skip, depth) /\ skip + 1 <= depth)
                  => Last(loggers').callers
                         = GoSlice(<<RenderFrame(UserFrame(skip + 1))>>)]_vars

\* C10 amended: WithCaller(skip) records the frame skip levels above the frame
\* of WithCaller itself: skip 0 is WithCaller's own frame, skip k >= 1 the k-th
\* frame of the application (1: the routine that invoked WithCaller).
C10_SkipFromWithCaller ==
    [][DerivedBy("WithCaller") =>
          \A skip \in Skips, depth \in Depths :
              (WithCaller(Receiver, skip, depth) /\ skip <= depth)
                  => Last(loggers').callers
                         = GoSlice(<<RenderFrame(IF skip = 0
                                                 THEN WithCallerFrame
                                                 ELSE UserFrame(skip))>>)]_vars

\* C10: WithCaller has recorded its own frame (skip 0) and the frame of its
\* invoker (skip 1)
C10_Witness ==
    \E i, j \in 1..Len(loggers) :
        /\ hist[i].op = "WithCaller"
        /\ loggers[i].callers = GoSlice(<<RenderFrame(WithCallerFrame)>>)
        /\ hist[j].op = "WithCaller"
        /\ loggers[j].callers = GoSlice(<<RenderFrame(UserFrame(1))>>)

\* the record a call of Output formats
RecordOf(c) ==
    JSONFormat([loggers[c.by] EXCEPT !.level = c.level], maps, c.message, c.now)

\* the record can be serialized: every value of it is representable
Serializable(data) == \A k \in DOMAIN data : Representable(data[k])

Quoted(str) == "\"" \o str \o "\""

\* C5: when the record cannot be serialized, Output performs no write on the
\* sink.
C5_NoWriteOnMarshalError ==
    [][(Emitted /\ ~Serializable(RecordOf(TheCall))) => sink' = sink]_vars

\* C6: the record of JSONFormat maps level, time, message and callers to the
\* Logger's level string, the clock reading, the message argument and the
\* Logger's callers, whatever the field set holds under those names; every
\* other key of the field set is in the record with its value; no other key.
C6_ReservedKeysWin ==
    \A i \in 1..Len(loggers), m \in Messages, now \in Times :
        LET data == JSONFormat(loggers[i], maps, m, now)
            fs == FieldSet(i)
        IN /\ DOMAIN data = Reserved \cup DOMAIN fs
           /\ data["level"] = GoString(LevelString(loggers[i].level))
           /\ data["time"] = GoInt(now)
           /\ data["message"] = GoString(m)
           /\ data["callers"] = loggers[i].callers
           /\ \A k \in DOMAIN fs \ Reserved : data[k] = fs[k]

\* C6: Output has formatted a Logger whose field set holds the key "message"
C6_Witness ==
    \E n \in 1..Len(sink) :
        /\ sink[n].op = "Output"
        /\ "message" \in DOMAIN FieldSet(sink[n].by)
        /\ sink[n].content.json
        /\ \E m \in Messages : sink[n].content.obj["message"] = Quoted(m)

\* C7: a call of Output at any of the six severities, on a Logger whose
\* record is serializable, makes exactly one write: the JSON text of the
\* record, whose level key is the severity's string.
C7_OneWritePerOutput ==
    [][(/\ Emitted
        /\ TheCall.level \in Severities
        /\ Serializable(RecordOf(TheCall)))
           => /\ Len(sink') = Len(sink) + 1
              /\ SubSeq(sink', 1, Len(sink)) = sink
              /\ Last(sink').content.json
              /\ Last(sink').content.obj = Marshal(RecordOf(TheCall)).obj
              /\ Last(sink').content.obj["level"]
                     = Quoted(LevelString(TheCall.level))]_vars

\* C7: Output has written for a Logger set to LevelError
C7_Witness ==
    \E n \in 1..Len(sink) :
        /\ sink[n].op = "Output"
        /\ loggers[sink[n].by].level = LevelError
        /\ sink[n].content.json
        /\ sink[n].content.obj["level"] = "\"error\""

\* no WithCaller or WithCallersFrames on the derivation chain of Logger i
RECURSIVE NoCallerCapture(_)
NoCallerCapture(i) ==
    /\ hist[i].op \notin {"WithCaller", "WithCallersFrames"}
    /\ hist[i].parent # 0 => NoCallerCapture(hist[i].parent)

\* C8: Infof on a Logger with no caller capture and an empty field set writes
\* one record: level "info", message the formatted text (the call's message
\* is Sprintf(format, v)), callers [], and the time, nothing else.
C8_InfofRecord ==
    [][(/\ Emitted
        /\ TheCall.op = "Infof"
        /\ NoCallerCapture(TheCall.by)
        /\ DOMAIN FieldSet(TheCall.by) = {})
           => /\ Len(sink') = Len(sink) + 1
              /\ Last(sink').content.json
              /\ Last(sink').content.obj
                     = [k \in Reserved |->
                           CASE k = "level" -> "\"info\""
                             [] k = "time" -> ToString(TheCall.now)
                             [] k = "message" -> Quoted(TheCall.message)
                             [] k = "callers" -> "[]"]]_vars

\* C3: goroutines that derive concurrently from one shared Logger, the root
\* or a Logger that carries fields, get maps of their own: no two of them
\* access one map with one of them writing, and the process is not aborted.
C3_NoSharedMapAccess ==
    /\ ~DataRace
    /\ ~crashed
    /\ \A g1, g2 \in Goroutines :
          (g1 # g2 /\ gs[g1].pc \in {"range", "switch", "done"}
                   /\ gs[g2].pc \in {"range", "switch", "done"})
              => gs[g1].ll.fields # gs[g2].ll.fields

AllDone == \A g \in Goroutines : gs[g].pc = "done"

\* the goroutines derive from a Logger whose field set is unset (the root)
FromRoot == base # 0 /\ loggers[base].fields = 0

\* the writes of goroutine g in the sink
WritesOf(g) == {n \in 1..Len(sink) : sink[n].by = g}

\* C4: goroutines that derive from the root with WithFields and emit: in
\* every interleaving each makes its write, and a record holds the reserved
\* keys and the emitting goroutine's fields with their values, never a key
\* of another goroutine.
C4_OwnFieldsOnly ==
    (FromRoot /\ AllDone) =>
        /\ ~crashed
        /\ Len(sink) = NumGoroutines
        /\ \A g \in Goroutines :
              /\ Cardinality(WritesOf(g)) = 1
              /\ \A n \in WritesOf(g) :
                    LET c == sink[n].content
                        f == gs[g].f
                    IN /\ c.json = (\A k \in DOMAIN f \ Reserved :
                                        Representable(f[k]))
                       /\ c.json => /\ DOMAIN c.obj = Reserved \cup DOMAIN f
                                    /\ \A k \in DOMAIN f \ Reserved :
                                          c.obj[k] = EncodeValue(f[k])
                       /\ \A h \in Goroutines \ {g} :
                             DOMAIN c.obj \cap (DOMAIN gs[h].f \ DOMAIN f)
                                 \subseteq Reserved

\* C4: all goroutines have emitted records from the root, two of them with
\* different keys
C4_Witness ==
    /\ FromRoot
    /\ AllDone
    /\ \A n \in 1..Len(sink) : sink[n].content.json
    /\ \E g, h \in Goroutines :
          /\ "service" \in DOMAIN gs[g].f
          /\ "uid" \notin DOMAIN gs[g].f
          /\ "uid" \in DOMAIN gs[h].f

\* C11: a WithLevel(lvl) on Logger C returns a Logger whose level is lvl and
\* leaves the level of C, and of every Logger derived before (the children
\* C.WithLevel(a), C.WithLevel(b) in either order), as it was.
C11_WithLevelFrame ==
    [][DerivedBy("WithLevel") =>
          \A lvl \in LevelArgs :
              WithLevel(Receiver, lvl)
                  => /\ Last(loggers').level = lvl
                     /\ \A j \in 1..Len(loggers) :
                           loggers'[j].level = loggers[j].level]_vars

\* C11: two children of one Logger C by WithLevel hold the levels they were
\* given, and C holds its own, different from both
C11_Witness ==
    \E c, i, j \in 1..Len(loggers) :
        /\ hist[i].op = "WithLevel" /\ hist[i].parent = c
        /\ hist[j].op = "WithLevel" /\ hist[j].parent = c
        /\ loggers[i].level = LevelError
        /\ loggers[j].level = LevelOther
        /\ loggers[c].level = LevelDebug

\* C12: WithCaller(skip) with a skip beyond the stack (no frame resolves)
\* returns, without aborting, a Logger whose caller sequence is the
\* receiver's, and leaves the receiver's caller sequence as it was.
C12_UnresolvedSkipKeepsCallers ==
    [][DerivedBy("WithCaller") =>
          \A skip \in Skips, depth \in Depths :
              (skip > depth /\ WithCaller(Receiver, skip, depth))
                  => /\ Last(loggers').callers = loggers[Receiver].callers
                     /\ loggers'[Receiver].callers = loggers[Receiver].callers
                     /\ ~crashed']_vars

\* C12: an unresolved WithCaller on a Logger that carries captured callers
\* has returned a Logger with the same callers
C12_Witness ==
    \E i \in 1..Len(loggers) :
        /\ hist[i].op = "WithCaller"
        /\ ~hist[i].ok
        /\ loggers[hist[i].parent].callers.kind = "slice"
        /\ Len(loggers[hist[i].parent].callers.a) >= 1
        /\ loggers[i].callers = loggers[hist[i].parent].callers

\* C13: the caller sequence stored by WithCallersFrames has at most 25
\* entries, for stacks shallower and deeper than 25 frames.
C13_AtMost25Callers ==
    \A i \in 1..Len(loggers) :
        hist[i].op = "WithCallersFrames"
            => /\ loggers[i].callers.kind = "slice"
               /\ Len(loggers[i].callers.a) <= 25

\* C13: WithCallersFrames has stored the capture of the deepest stack, which
\* has more than 25 frames
C13_Witness ==
    /\ MaxDeepStack > 25
    /\ \E i \in 1..Len(loggers) :
          /\ hist[i].op = "WithCallersFrames"
          /\ loggers[i].callers
                 = GoSlice(FramesLoop(
                       RuntimeCallers(Stack(WithCallersFramesFrame, MaxDeepStack),
                                      minCallerDepth, maxCallerDepth),
                       1, <<>>))
          /\ Len(loggers[i].callers.a) >= 24

\* the step is the call Error that ends an uninterrupted chain
\* base.WithFields(F).WithCaller(skip).Error(v): the receiver is the Logger
\* returned last, by a WithCaller whose skip resolved, on the Logger returned
\* just before by WithFields; F holds no reserved key
EndsChain ==
    /\ Emitted
    /\ TheCall.op = "Error"
    /\ TheCall.by = Len(loggers)
    /\ Len(loggers) >= 3
    /\ hist[TheCall.by].op = "WithCaller"
    /\ hist[TheCall.by].ok
    /\ hist[TheCall.by].parent = TheCall.by - 1
    /\ hist[TheCall.by - 1].op = "WithFields"
    /\ DOMAIN hist[TheCall.by - 1].f \cap Reserved = {}

ChainF == hist[TheCall.by - 1].f

\* the JSON texts of a callers list of exactly one entry, a frame
OneCaller ==
    {"[" \o Quoted(RenderFrame(fr)) \o "]" :
        fr \in {WithCallerFrame} \cup {UserFrame(d) : d \in Depths}}

\* the sink has received one more write, the record of the chain
\* ...Error(v): level "error", the message v, one caller, the keys of F
ChainRecordWritten(v) ==
    /\ Len(sink') = Len(sink) + 1
    /\ Last(sink').content.json
    /\ LET obj == Last(sink').content.obj
       IN /\ obj["level"] = "\"error\""
          /\ obj["message"] = Quoted(v[1].s)
          /\ obj["callers"] \in OneCaller
          /\ \A k \in DOMAIN ChainF :
                /\ k \in DOMAIN obj
                /\ obj[k] = EncodeValue(ChainF[k])

\* C14 as stated: for every base Logger, every F without a reserved key and
\* every resolvable skip, base.WithFields(F).WithCaller(skip).Error(msg)
\* writes one record with level "error", message msg, a callers list of one
\* entry and every key of F with its value.
C14_ChainRecord ==
    [][EndsChain =>
          \A v \in PrintArgs, now \in Times :
              Error(TheCall.by, v, now) => ChainRecordWritten(v)]_vars

\* C14 amended: the same, for an F and a base whose field values can all be
\* encoded as JSON.
C14_ChainRecordEncodable ==
    [][(/\ EndsChain
        /\ \A k \in DOMAIN FieldSet(TheCall.by) :
              Representable(FieldSet(TheCall.by)[k]))
           => \A v \in PrintArgs, now \in Times :
                  Error(TheCall.by, v, now) => ChainRecordWritten(v)]_vars

\* C14: the chain root.WithFields({service: auth}).WithCaller(skip).Error has
\* written its record
C14_Witness ==
    /\ Len(loggers) >= 3
    /\ hist[2].op = "WithFields"
    /\ hist[2].f = Fields1("service", GoString("auth"))
    /\ hist[3].op = "WithCaller" /\ hist[3].ok /\ hist[3].parent = 2
    /\ \E n \in 1..Len(sink) :
          /\ sink[n].op = "Error"
          /\ sink[n].by = 3
          /\ sink[n].content.json
          /\ sink[n].content.obj["service"] = "\"auth\""
          /\ sink[n].content.obj["callers"] \in OneCaller

\* the field set a with the keys of b added and given b's values
Override(a, b) ==
    [k \in DOMAIN a \cup DOMAIN b |-> IF k \in DOMAIN b THEN b[k] ELSE a[k]]

\* the field set that the chain of WithFields calls ending in Logger i is to
\* give, when i is the Logger returned last: while i was returned by
\* WithFields on the Logger returned just before it, the chain goes on
\* backward; its first receiver L contributes its own field set
RECURSIVE ChainFields(_)
ChainFields(i) ==
    IF i > 1 /\ hist[i].op = "WithFields" /\ hist[i].parent = i - 1
    THEN Override(ChainFields(i - 1), hist[i].f)
    ELSE FieldSet(i)

\* the field set of the Logger a derivation has returned
NewFieldSet == MapAt(maps', Last(loggers').fields)

\* C15: WithFields(f) returns a Logger whose field set is the receiver's with
\* the keys of f added and overwritten by f's values; and so a chain
\* L.WithFields(F1)...WithFields(Fn) returns the union of the keys of L and
\* F1..Fn, each key with the value of the last Fi that defines it, or L's.
C15_FieldsAccumulate ==
    [][DerivedBy("WithFields") =>
          \A f \in FieldsArgs :
              WithFields(Receiver, f)
                  => /\ NewFieldSet = Override(FieldSet(Receiver), f)
                     /\ Receiver = Len(loggers)
                           => NewFieldSet = Override(ChainFields(Receiver), f)]_vars

\* C15: a chain of three WithFields from the root has returned a Logger that
\* holds the keys of all three, service with the value of the later call
C15_Witness ==
    /\ Len(loggers) = 4
    /\ \A i \in 2..4 : hist[i].op = "WithFields" /\ hist[i].parent = i - 1
    /\ hist[2].f = Fields1("service", GoString("auth"))
    /\ hist[3].f = Fields2("service", GoString("pay"), "message", GoString("spoof"))
    /\ hist[4].f = Fields1("uid", GoInt(7))
    /\ FieldSet(4) = [k \in {"service", "message", "uid"} |->
                         CASE k = "service" -> GoString("pay")
                           [] k = "message" -> GoString("spoof")
                           [] k = "uid" -> GoInt(7)]

\* Loggers a and b were returned by separate WithFields calls on one
\* receiver whose field set is unset
NilSiblings(a, b) ==
    /\ a # b
    /\ hist[a].op = "WithFields"
    /\ hist[b].op = "WithFields"
    /\ hist[a].parent = hist[b].parent
    /\ loggers[hist[a].parent].fields = 0

\* C20: a WithFields on a receiver whose field set is unset (nil) allocates
\* a map no Logger holds yet and leaves the receiver's field set unset and
\* every Logger's field set as it was; a later WithFields on a Logger so
\* obtained never changes the field set of another one obtained from the
\* same receiver.
C20_FreshMapForNilReceiver ==
    [][DerivedBy("WithFields") =>
          /\ loggers[Receiver].fields = 0
                => /\ loggers'[Receiver].fields = 0
                   /\ Last(loggers').fields # 0
                   /\ \A j \in 1..Len(loggers) :
                         /\ loggers'[j].fields # Last(loggers').fields
                         /\ MapAt(maps', loggers'[j].fields) = FieldSet(j)
          /\ \A b \in 1..Len(loggers) :
                NilSiblings(Receiver, b)
                    => MapAt(maps', loggers'[b].fields) = FieldSet(b)]_vars

\* C20: two Loggers were obtained from the root by separate WithFields calls,
\* a later WithFields on the first has added a key, and the second holds
\* what it was given
C20_Witness ==
    /\ Len(loggers) = 4
    /\ NilSiblings(2, 3)
    /\ hist[4].op = "WithFields" /\ hist[4].parent = 2
    /\ hist[4].f = Fields1("uid", GoInt(7))
    /\ "uid" \in DOMAIN FieldSet(2)
    /\ FieldSet(3) = hist[3].f
    /\ FieldSet(1) = EmptyFields

\* C16: a call of Output or of one of the twelve leveled calls on Logger L
\* leaves L's level, field set, context and callers, and those of every
\* other Logger, as they were (JSONFormat, which Output calls, writes only
\* the record it builds).
C16_EmissionKeepsConfiguration ==
    [][Emitted =>
          /\ Len(loggers') = Len(loggers)
          /\ \A j \in 1..Len(loggers) :
                /\ loggers'[j].level = loggers[j].level
                /\ loggers'[j].ctx = loggers[j].ctx
                /\ loggers'[j].callers = loggers[j].callers
                /\ loggers'[j].fields = loggers[j].fields
                /\ MapAt(maps', loggers'[j].fields) = FieldSet(j)]_vars

\* C16: Error has written for a Logger whose own level is another one, and
\* still is
C16_Witness ==
    \E n \in 1..Len(sink) :
        /\ sink[n].op = "Error"
        /\ sink[n].content.json
        /\ sink[n].content.obj["level"] = "\"error\""
        /\ loggers[sink[n].by].level = LevelOther

\* C17: a call of Fatal, Fatalf, Panic or Panicf makes its one write (of the
\* record, whose level key is "fatal" or "panic", when it is serializable)
\* and the process goes on: it is neither exited nor panicking.
C17_FatalPanicReturn ==
    [][(Emitted /\ TheCall.op \in {"Fatal", "Fatalf", "Panic", "Panicf"})
          => /\ ~crashed'
             /\ Len(sink') = Len(sink) + 1
             /\ SubSeq(sink', 1, Len(sink)) = sink
             /\ Last(sink').content.json = Serializable(RecordOf(TheCall))
             /\ Last(sink').content.json
                   => Last(sink').content.obj["level"]
                          = (IF TheCall.op \in {"Fatal", "Fatalf"}
                             THEN "\"fatal\"" ELSE "\"panic\"")]_vars

\* C17: Panicf has written its record and the process has not ended
C17_Witness ==
    /\ ~crashed
    /\ \E n \in 1..Len(sink) :
          /\ sink[n].op = "Panicf"
          /\ sink[n].content.json
          /\ sink[n].content.obj["level"] = "\"panic\""

\* the severity a leveled call is named after
SeverityOf(op) ==
    CASE op \in {"Debug", "Debugf"} -> LevelDebug
      [] op \in {"Info", "Infof"} -> LevelInfo
      [] op \in {"Warn", "Warnf"} -> LevelWarn
      [] op \in {"Error", "Errorf"} -> LevelError
      [] op \in {"Fatal", "Fatalf"} -> LevelFatal
      [] op \in {"Panic", "Panicf"} -> LevelPanic

\* Logger j is what L.WithLevel(S) has returned
IsWithLevel(j, L, S) ==
    /\ hist[j].op = "WithLevel"
    /\ hist[j].parent = L
    /\ loggers[j].level = S

\* what the sink receives from Output(m) on Logger j at the clock reading now
OutputWrites(j, m, now) ==
    LET w == OutputTo(<<>>, loggers[j], maps, j, "Output", m, now)
    IN [k \in 1..Len(w) |-> w[k].content]

\* C18: a leveled call on Logger L makes the sink receive what Output(m)
\* on a Logger L.WithLevel(S) makes it receive, S being the severity the call
\* is named after and m the formatted message; the record's level is S's
\* string whatever the level of L.
C18_LeveledIsWithLevelOutput ==
    [][(Emitted /\ TheCall.op # "Output") =>
          /\ Len(sink') = Len(sink) + 1
          /\ Last(sink').content.json
                => Last(sink').content.obj["level"]
                       = Quoted(LevelString(SeverityOf(TheCall.op)))
          /\ \A j \in 1..Len(loggers) :
                IsWithLevel(j, TheCall.by, SeverityOf(TheCall.op))
                    => OutputWrites(j, TheCall.message, TheCall.now)
                           = <<Last(sink').content>>]_vars

\* C18: Error on the root, whose level is debug, has written a record of
\* level "error", and the root's WithLevel(LevelError) exists to compare
C18_Witness ==
    /\ Len(loggers) >= 2
    /\ IsWithLevel(2, 1, LevelError)
    /\ loggers[1].level = LevelDebug
    /\ \E n \in 1..Len(sink) :
          /\ sink[n].op = "Error"
          /\ sink[n].by = 1
          /\ sink[n].content.json
          /\ sink[n].content.obj["level"] = "\"error\""
          /\ OutputWrites(2, "db timeout", 1001) = <<sink[n].content>>

\* C19: WithLevel returns a Logger of the level it is handed, also one that
\* is none of the six severities; a call of Output on a Logger of such a
\* level writes nothing, and at each of the six severities it makes a write.
C19_NoCaseNoWrite ==
    [][/\ DerivedBy("WithLevel")
             => \A lvl \in LevelValues :
                    WithLevel(Receiver, lvl) => Last(loggers').level = lvl
       /\ Emitted
             => IF TheCall.level \in Severities
                THEN Len(sink') = Len(sink) + 1
                ELSE sink' = sink]_vars

\* C19: Output was called on a Logger whose level WithLevel set to a value
\* that is none of the six, and the sink has received nothing
C19_Witness ==
    /\ Len(calls) = 1
    /\ calls[1].op = "Output"
    /\ calls[1].level \in {LevelOther, LevelBelow}
    /\ hist[calls[1].by].op = "WithLevel"
    /\ loggers[calls[1].by].level \notin Severities
    /\ sink = <<>>

====
